---- MODULE Spec2Model ----
(***************************************************************************)
(* Security gate of the loadout backend: IP block store, fixed-window      *)
(* rate limit tracker, security event log and the request middleware that  *)
(* composes them (core/security_models.py, core/middleware.py,             *)
(* core/security_views.py, core/security_serializers.py), with the MFA     *)
(* verification view that shares the tracker and the log (users/views.py). *)
(*                                                                         *)
(* Time is a discrete clock `now`.  Every duration of the program (the     *)
(* 60 second windows, RATE_LIMIT_WINDOW, the 15 minute failed-login        *)
(* window, the block length in hours) is scaled down to a few clock ticks, *)
(* each on its own; their order is kept.  In the specifications of the     *)
(* gate one request is one atomic step (requests are handled one after    *)
(* the other); SpecRace and SpecBlockRace take check_rate_limit and       *)
(* block_ip apart into their database statements and interleave the calls *)
(* of two workers.                                                        *)
(***************************************************************************)
EXTENDS Integers, Sequences, FiniteSets, TLC

(* ---------------------------- model bounds ---------------------------- *)
MaxTime == 3
MaxEvents == 4
MaxRateEvents == 4
MaxBlockEvents == 3
MaxAutoEvents == 5
MaxSensEvents == 7
MaxCalls == 2
MaxFailEvents == 4
MaxOrderEvents == 2
MaxGateEvents == 3
MaxRespEvents == 3
MaxLifeEvents == 4
MaxMfaEvents == 8
MaxMfaFails == 1
MaxKeyEvents == 3

(* settings.* values (the settings module is configuration); scaled *)
MAX_REGISTER_ATTEMPTS == 2
MAX_LOGIN_ATTEMPTS == 2
MAX_API_CALLS_PER_MINUTE == 2
RATE_LIMIT_WINDOW == 3
AUTO_BLOCK_THRESHOLD == 2
BLOCK_DURATION_HOURS == 2

(* literal durations of the code, in clock ticks *)
WINDOW_60_SECONDS == 2
MINUTES_15 == 3
TICKS_PER_HOUR == 1
(* the clock is finer than a second: a duration in ticks has a fraction   *)
(* of a second that int() cuts off                                        *)
TICKS_PER_SECOND == 2

(* literal thresholds of the code *)
LOGOUT_MAX_REQUESTS == 10
SENSITIVE_MARGIN == 5
MFA_MAX_REQUESTS == 5
DDOS_FACTOR == 3

NoTime == 0 - 1
NoHours == 0 - 1
NoUser == "none"
AdminUser == "admin"

IPs == {"10.0.0.1", "10.0.0.2"}

(* the worker processes that serve requests side by side, and a worker    *)
(* that is between two calls                                              *)
Procs == {1, 2}
IdleProc == [pc |-> "idle", t |-> 0, row |-> {}, created |-> FALSE, calls |-> 0,
     allowed |-> 0]

(* request paths, as sequences of path segments ("/api/auth/users/") *)
P_REGISTER == <<"api", "auth", "users">>
P_LOGIN == <<"api", "auth", "token", "login">>
P_LOGOUT == <<"api", "auth", "token", "logout">>
P_GAMES == <<"api", "games">>
P_MEDIA == <<"media">>
P_API == <<"api">>
P_USERS_ME == <<"api", "auth", "users", "me">>
P_MFA_VERIFY == <<"api", "auth", "mfa", "verify">>

Paths == {P_REGISTER, P_LOGIN, P_GAMES, P_MEDIA}
Methods == {"GET", "POST"}
AppStatuses == {200, 201, 401}

(* procs holds, for every worker process, the position and the local      *)
(* variables of the call it is in the middle of (used where calls of      *)
(* several workers interleave; requests handled one after the other leave *)
(* it alone)                                                              *)
VARIABLES now, trackers, ipblocks, events, procs

vars == <<now, trackers, ipblocks, events, procs>>

(* ------------------------------ helpers ------------------------------- *)
(* the prefix test replaced by a comparison of the whole path *)
PathEquals(path, prefix) == path = prefix

StartsWith(path, prefix) ==
    /\ Len(prefix) <= Len(path)
    /\ SubSeq(path, 1, Len(prefix)) = prefix

(* the row of the highest id: the duplicates ordered by id, the last one  *)
(* taken in place of the first                                            *)
MaxId(rows) == CHOOSE r \in rows : \A q \in rows : r.id >= q.id

MinId(rows) == CHOOSE r \in rows : \A q \in rows : r.id <= q.id

(* the automatic primary key of a new row: larger than the key of every   *)
(* row of the table (the order of creation among the rows that exist)     *)
new_id(rows) ==
    IF rows = {} THEN 1
    ELSE (CHOOSE r \in rows : \A q \in rows : r.id >= q.id).id + 1

(* SecurityEvent.objects.create: the fields the gate reads back or that    *)
(* tell the writers apart (endpoint is blank, << >>, where the writer     *)
(* passes none); timestamp is auto_now_add                                *)
SecurityEvent(event_type, severity, ip, endpoint, t) ==
    [event_type |-> event_type, severity |-> severity, ip_address |-> ip,
     endpoint |-> endpoint, timestamp |-> t]

(* --------------------------- IP block store --------------------------- *)
(* an IPBlock row carries id, ip_address, reason, details, blocked_at,    *)
(* blocked_until (NoTime for null), is_permanent, blocked_by and          *)
(* attempt_count; last_attempt, which every save overwrites with the      *)
(* clock, is left out                                                     *)
(* is_blocked with the expiry instant still counted as blocked *)
is_blocked_le(row, t) ==
    IF row.is_permanent THEN TRUE
    ELSE IF row.blocked_until # NoTime /\ t <= row.blocked_until THEN TRUE
    ELSE FALSE

is_blocked(row, t) ==
    IF row.is_permanent THEN TRUE
    ELSE IF row.blocked_until # NoTime /\ t < row.blocked_until THEN TRUE
    ELSE FALSE

is_ip_blocked(B, ip, t) ==
    LET rows == {r \in B : r.ip_address = ip}
    IN  IF rows = {} THEN FALSE
        ELSE is_blocked(CHOOSE r \in rows : TRUE, t)

increment_attempts(row, t) ==
    [row EXCEPT !.attempt_count = row.attempt_count + 1]

(* update_or_create that inserts without looking for the row *)
update_or_create_always(B, ip, reason, details, blocked_until, permanent, blocked_by, t) ==
    [row |-> [id |-> new_id(B), ip_address |-> ip, reason |-> reason,
              details |-> details, blocked_at |-> t,
              blocked_until |-> blocked_until,
              is_permanent |-> permanent, blocked_by |-> blocked_by,
              attempt_count |-> 0],
     created |-> TRUE]

(* update_or_create that starts an expired row afresh: blocked_at is set  *)
(* to the time of the new block and the attempts are forgotten            *)
update_or_create_restart(B, ip, reason, details, blocked_until, permanent, blocked_by, t) ==
    LET rows == {r \in B : r.ip_address = ip}
    IN  IF rows = {}
        THEN [row |-> [id |-> new_id(B), ip_address |-> ip, reason |-> reason,
                       details |-> details, blocked_at |-> t,
                       blocked_until |-> blocked_until,
                       is_permanent |-> permanent, blocked_by |-> blocked_by,
                       attempt_count |-> 0],
              created |-> TRUE]
        ELSE LET old == CHOOSE r \in rows : TRUE
                 upd == [old EXCEPT !.reason = reason, !.details = details,
                                    !.blocked_until = blocked_until,
                                    !.is_permanent = permanent,
                                    !.blocked_by = blocked_by]
             IN  [row |-> IF is_blocked(old, t) THEN upd
                          ELSE [upd EXCEPT !.blocked_at = t,
                                           !.attempt_count = 0 - 1],
                  created |-> FALSE]

(* objects.update_or_create(ip_address=ip, defaults=...): the row found,  *)
(* or a new one; attempt_count and blocked_at are not part of defaults    *)
update_or_create(B, ip, reason, details, blocked_until, permanent, blocked_by, t) ==
    LET rows == {r \in B : r.ip_address = ip}
    IN  IF rows = {}
        THEN [row |-> [id |-> new_id(B), ip_address |-> ip, reason |-> reason,
                       details |-> details, blocked_at |-> t,
                       blocked_until |-> blocked_until,
                       is_permanent |-> permanent, blocked_by |-> blocked_by,
                       attempt_count |-> 0],
              created |-> TRUE]
        ELSE LET old == CHOOSE r \in rows : TRUE
             IN  [row |-> [old EXCEPT !.reason = reason, !.details = details,
                                      !.blocked_until = blocked_until,
                                      !.is_permanent = permanent,
                                      !.blocked_by = blocked_by],
                  created |-> FALSE]

(* IPBlock.block_ip: returns the new block store and log *)
block_ip(B, E, ip, reason, duration_hours, permanent, blocked_by, details, t) ==
    LET hours == IF duration_hours = NoHours THEN BLOCK_DURATION_HOURS
                 ELSE duration_hours
        blocked_until == IF permanent THEN NoTime ELSE t + hours * TICKS_PER_HOUR
        uc == update_or_create(B, ip, reason, details, blocked_until,
                               permanent, blocked_by, t)
        row == IF uc.created THEN uc.row ELSE increment_attempts(uc.row, t)
    IN  [ipblocks |-> {r \in B : r.id # row.id} \cup {row},
         events |-> Append(E, SecurityEvent("ip_blocked", "high", ip, << >>, t))]

(* unblock_ip that reports the row found but does not delete it *)
unblock_ip_keep(B, ip) ==
    [ipblocks |-> B, ret |-> {r \in B : r.ip_address = ip} # {}]

(* IPBlock.unblock_ip *)
unblock_ip(B, ip) ==
    LET rows == {r \in B : r.ip_address = ip}
    IN  IF rows = {} THEN [ipblocks |-> B, ret |-> FALSE]
        ELSE [ipblocks |-> B \ {CHOOSE r \in rows : TRUE}, ret |-> TRUE]

(* ------------------------- rate limit tracker ------------------------- *)
(* the comparison of line 215, and the same with > for >= *)
limit_reached_gt(request_count, max_requests) == request_count > max_requests

limit_reached(request_count, max_requests) == request_count >= max_requests

(* check_rate_limit that saves an increment on the rejected path too *)
check_rate_limit_count_rejected(T, ip, endpoint, max_requests, window_seconds, t) ==
    LET window_start == t - window_seconds
        kept == {r \in T : ~(r.window_start < window_start)}
        found == {r \in kept : /\ r.ip_address = ip
                               /\ r.endpoint = endpoint
                               /\ r.window_start >= window_start}
        created == found = {}
        tracker == IF created
                   THEN [id |-> new_id(kept), ip_address |-> ip, endpoint |-> endpoint,
                         request_count |-> 0, window_start |-> t]
                   ELSE MinId(found)
        others == (kept \ found)
        saved == [tracker EXCEPT !.request_count = tracker.request_count + 1]
    IN  IF limit_reached(tracker.request_count, max_requests)
        THEN [trackers |-> others \cup {saved},
              allowed |-> FALSE, count |-> tracker.request_count,
              reset |-> tracker.window_start + window_seconds - t]
        ELSE [trackers |-> others \cup {saved},
              allowed |-> TRUE, count |-> tracker.request_count + 1,
              reset |-> 0]

(* RateLimitTracker.check_rate_limit *)
check_rate_limit(T, ip, endpoint, max_requests, window_seconds, t) ==
    LET window_start == t - window_seconds
        kept == {r \in T : ~(r.window_start < window_start)}
        found == {r \in kept : /\ r.ip_address = ip
                               /\ r.endpoint = endpoint
                               /\ r.window_start >= window_start}
        created == found = {}
        tracker == IF created
                   THEN [id |-> new_id(kept), ip_address |-> ip, endpoint |-> endpoint,
                         request_count |-> 0, window_start |-> t]
                   ELSE MinId(found)
        others == (kept \ found)
    IN  IF limit_reached(tracker.request_count, max_requests)
        THEN [trackers |-> others \cup {tracker},
              allowed |-> FALSE, count |-> tracker.request_count,
              reset |-> tracker.window_start + window_seconds - t]
        ELSE [trackers |-> others \cup
                  {[tracker EXCEPT !.request_count = tracker.request_count + 1]},
              allowed |-> TRUE, count |-> tracker.request_count + 1,
              reset |-> 0]

(* ------------------------------ the gate ------------------------------ *)
(* SENSITIVE_ENDPOINTS with a rule for all of /api/auth/ put in front: a   *)
(* login path then matches two prefixes                                   *)
SENSITIVE_ENDPOINTS_overlapping ==
    << [endpoint |-> "/api/auth/", prefix |-> <<"api", "auth">>,
        max_requests |-> LOGOUT_MAX_REQUESTS, window |-> WINDOW_60_SECONDS,
        name |-> "auth", excessive |-> "Excessive auth attempts"],
       [endpoint |-> "/api/auth/users/", prefix |-> P_REGISTER,
        max_requests |-> MAX_REGISTER_ATTEMPTS, window |-> RATE_LIMIT_WINDOW,
        name |-> "register", excessive |-> "Excessive register attempts"],
       [endpoint |-> "/api/auth/token/login/", prefix |-> P_LOGIN,
        max_requests |-> MAX_LOGIN_ATTEMPTS, window |-> RATE_LIMIT_WINDOW,
        name |-> "login", excessive |-> "Excessive login attempts"],
       [endpoint |-> "/api/auth/token/logout/", prefix |-> P_LOGOUT,
        max_requests |-> LOGOUT_MAX_REQUESTS, window |-> WINDOW_60_SECONDS,
        name |-> "logout", excessive |-> "Excessive logout attempts"] >>

(* SecurityMiddleware.SENSITIVE_ENDPOINTS, in dictionary order; endpoint  *)
(* is the dictionary key (the tracker label), prefix the same key as path *)
(* segments, excessive the text f"Excessive {name} attempts"              *)
SENSITIVE_ENDPOINTS ==
    << [endpoint |-> "/api/auth/users/", prefix |-> P_REGISTER,
        max_requests |-> MAX_REGISTER_ATTEMPTS, window |-> RATE_LIMIT_WINDOW,
        name |-> "register", excessive |-> "Excessive register attempts"],
       [endpoint |-> "/api/auth/token/login/", prefix |-> P_LOGIN,
        max_requests |-> MAX_LOGIN_ATTEMPTS, window |-> RATE_LIMIT_WINDOW,
        name |-> "login", excessive |-> "Excessive login attempts"],
       [endpoint |-> "/api/auth/token/logout/", prefix |-> P_LOGOUT,
        max_requests |-> LOGOUT_MAX_REQUESTS, window |-> WINDOW_60_SECONDS,
        name |-> "logout", excessive |-> "Excessive logout attempts"] >>

(* API_PATTERN = re.compile(r'^/api/') *)
API_PATTERN_match(path) == StartsWith(path, P_API)

(* SecurityMiddleware._auto_block_ip *)
auto_block_ip(B, E, ip, reason, attempt_count, t) ==
    block_ip(B, E, ip, "auto", BLOCK_DURATION_HOURS, FALSE, NoUser,
             reason, t)

(* _handle_failed_login that counts the login_fail events written since   *)
(* the client was last unblocked                                          *)
handle_failed_login_since_unblock(B, E, ip, path, t) ==
    LET E1 == Append(E, SecurityEvent("login_fail", "medium", ip, path, t))
        unblocks == {i \in DOMAIN E1 : /\ E1[i].event_type = "suspicious"
                                       /\ E1[i].ip_address = ip}
        recent_fails == Cardinality({i \in DOMAIN E1 :
                            /\ E1[i].event_type = "login_fail"
                            /\ E1[i].ip_address = ip
                            /\ E1[i].timestamp >= t - MINUTES_15
                            /\ \A u \in unblocks : u < i})
    IN  IF recent_fails >= AUTO_BLOCK_THRESHOLD
        THEN LET b == auto_block_ip(B, E1, ip,
                                    "Brute force login attempts", recent_fails, t)
             IN  [ipblocks |-> b.ipblocks,
                  events |-> Append(b.events,
                                SecurityEvent("brute_force", "critical", ip, << >>, t))]
        ELSE [ipblocks |-> B, events |-> E1]

(* _handle_failed_login that clears the client's login_fail events once   *)
(* it has blocked the client                                              *)
handle_failed_login_reset(B, E, ip, path, t) ==
    LET E1 == Append(E, SecurityEvent("login_fail", "medium", ip, path, t))
        recent_fails == Cardinality({i \in DOMAIN E1 :
                            /\ E1[i].event_type = "login_fail"
                            /\ E1[i].ip_address = ip
                            /\ E1[i].timestamp >= t - MINUTES_15})
        kept(e) == ~(e.event_type = "login_fail" /\ e.ip_address = ip)
    IN  IF recent_fails >= AUTO_BLOCK_THRESHOLD
        THEN LET b == auto_block_ip(B, SelectSeq(E1, kept), ip,
                                    "Brute force login attempts", recent_fails, t)
             IN  [ipblocks |-> b.ipblocks,
                  events |-> Append(b.events,
                                SecurityEvent("brute_force", "critical", ip, << >>, t))]
        ELSE [ipblocks |-> B, events |-> E1]

(* _handle_failed_login that blocks only above the threshold *)
handle_failed_login_gt(B, E, ip, path, t) ==
    LET E1 == Append(E, SecurityEvent("login_fail", "medium", ip, path, t))
        recent_fails == Cardinality({i \in DOMAIN E1 :
                            /\ E1[i].event_type = "login_fail"
                            /\ E1[i].ip_address = ip
                            /\ E1[i].timestamp >= t - MINUTES_15})
    IN  IF recent_fails > AUTO_BLOCK_THRESHOLD
        THEN LET b == auto_block_ip(B, E1, ip,
                                    "Brute force login attempts", recent_fails, t)
             IN  [ipblocks |-> b.ipblocks,
                  events |-> Append(b.events,
                                SecurityEvent("brute_force", "critical", ip, << >>, t))]
        ELSE [ipblocks |-> B, events |-> E1]

(* SecurityMiddleware._handle_failed_login *)
handle_failed_login(B, E, ip, path, t) ==
    LET E1 == Append(E, SecurityEvent("login_fail", "medium", ip, path, t))
        recent_fails == Cardinality({i \in DOMAIN E1 :
                            /\ E1[i].event_type = "login_fail"
                            /\ E1[i].ip_address = ip
                            /\ E1[i].timestamp >= t - MINUTES_15})
    IN  IF recent_fails >= AUTO_BLOCK_THRESHOLD
        THEN LET b == auto_block_ip(B, E1, ip,
                                    "Brute force login attempts", recent_fails, t)
             IN  [ipblocks |-> b.ipblocks,
                  events |-> Append(b.events,
                                SecurityEvent("brute_force", "critical", ip, << >>, t))]
        ELSE [ipblocks |-> B, events |-> E1]

(* int(time_until_reset): the seconds until the reset, a duration in clock *)
(* ticks, cut to whole seconds                                            *)
int_seconds(time_until_reset) == time_until_reset \div TICKS_PER_SECOND

(* step 2 of __call__: the loop over SENSITIVE_ENDPOINTS from rule i on.   *)
(* st carries the stores and the response (status 429 and its retry_after *)
(* once a check has rejected the request) and, in checked, the endpoint   *)
(* labels check_rate_limit was called with, in order                      *)
RECURSIVE sensitive_loop(_, _, _, _, _)
sensitive_loop(i, st, ip, path, t) ==
    IF i > Len(SENSITIVE_ENDPOINTS) THEN st
    ELSE LET limits == SENSITIVE_ENDPOINTS[i]
         IN  IF ~StartsWith(path, limits.prefix)
             THEN sensitive_loop(i + 1, st, ip, path, t)
             ELSE LET c == check_rate_limit(st.trackers, ip,
                                limits.endpoint, limits.max_requests,
                                limits.window, t)
                      st1 == [st EXCEPT !.trackers = c.trackers,
                                        !.checked = Append(st.checked,
                                                           limits.endpoint)]
                  IN  IF c.allowed
                      THEN sensitive_loop(i + 1, st1, ip, path, t)
                      ELSE LET E1 == Append(st1.events,
                                        SecurityEvent("rate_limit", "medium", ip,
                                                      limits.prefix, t))
                           IN  IF c.count > limits.max_requests + SENSITIVE_MARGIN
                               THEN LET b == auto_block_ip(st1.ipblocks, E1, ip,
                                                limits.excessive, c.count, t)
                                    IN  [st1 EXCEPT !.ipblocks = b.ipblocks,
                                                    !.events = b.events,
                                                    !.status = 429,
                                                    !.retry_after = int_seconds(c.reset)]
                               ELSE [st1 EXCEPT !.events = E1, !.status = 429,
                                                !.retry_after = int_seconds(c.reset)]

(* step 3 of __call__: general API rate limiting *)
general_check(st, ip, path, t) ==
    IF ~API_PATTERN_match(path) THEN st
    ELSE LET c == check_rate_limit(st.trackers, ip,
                       "api_general", MAX_API_CALLS_PER_MINUTE,
                       WINDOW_60_SECONDS, t)
             st1 == [st EXCEPT !.trackers = c.trackers,
                               !.checked = Append(st.checked, "api_general")]
         IN  IF c.allowed THEN st1
             ELSE LET E1 == Append(st1.events,
                               SecurityEvent("rate_limit", "low", ip, path, t))
                  IN  IF c.count > MAX_API_CALLS_PER_MINUTE * DDOS_FACTOR
                      THEN LET b == auto_block_ip(st1.ipblocks,
                                        E1, ip, "Potential DDoS attack", c.count, t)
                           IN  [st1 EXCEPT !.ipblocks = b.ipblocks,
                                           !.events = Append(b.events,
                                               SecurityEvent("ddos", "critical", ip,
                                                             path, t)),
                                           !.status = 429,
                                           !.retry_after = int_seconds(c.reset)]
                      ELSE [st1 EXCEPT !.events = E1, !.status = 429,
                                       !.retry_after = int_seconds(c.reset)]

(* steps 4 and 5 of __call__ with the method test of line 154 left out *)
after_response_any_method(st, ip, path, method, app_status, t) ==
    LET st1 == [st EXCEPT !.status = app_status, !.forwarded = TRUE]
        st2 == IF StartsWith(path, P_LOGIN) /\ app_status = 401
               THEN LET h == handle_failed_login(st1.ipblocks, st1.events, ip,
                                                 path, t)
                    IN  [st1 EXCEPT !.ipblocks = h.ipblocks,
                                    !.events = h.events]
               ELSE st1
    IN  IF StartsWith(path, P_REGISTER) /\ app_status = 201
        THEN [st2 EXCEPT !.events = Append(st2.events,
                             SecurityEvent("register_success", "low", ip,
                                           path, t))]
        ELSE st2

(* steps 4 and 5 of __call__: what the gate does with the response of the *)
(* application                                                            *)
after_response(st, ip, path, method, app_status, t) ==
    LET st1 == [st EXCEPT !.status = app_status, !.forwarded = TRUE]
        st2 == IF StartsWith(path, P_LOGIN) /\ app_status = 401
               THEN LET h == handle_failed_login(st1.ipblocks, st1.events, ip,
                                                 path, t)
                    IN  [st1 EXCEPT !.ipblocks = h.ipblocks,
                                    !.events = h.events]
               ELSE st1
    IN  IF StartsWith(path, P_REGISTER) /\ method = "POST" /\ app_status = 201
        THEN [st2 EXCEPT !.events = Append(st2.events,
                             SecurityEvent("register_success", "low", ip,
                                           path, t))]
        ELSE st2

(* __call__ that counts the rejected request of a blocked client as an    *)
(* attempt on the client's IPBlock row                                    *)
gate_call_count_blocked(T, B, E, ip, path, method, app_status, t) ==
    LET st0 == [trackers |-> T, ipblocks |-> B, events |-> E,
                status |-> 0, forwarded |-> FALSE,
                retry_after |-> NoTime, checked |-> << >>]
    IN  IF is_ip_blocked(B, ip, t)
        THEN [st0 EXCEPT !.events = Append(E,
                             SecurityEvent("ip_blocked", "high", ip, path, t)),
                         !.ipblocks = {IF r.ip_address = ip
                                       THEN increment_attempts(r, t) ELSE r :
                                           r \in B},
                         !.status = 403]
        ELSE LET st1 == sensitive_loop(1, st0, ip, path, t)
             IN  IF st1.status = 429 THEN st1
                 ELSE LET st2 == general_check(st1, ip, path, t)
                      IN  IF st2.status = 429 THEN st2
                          ELSE after_response(st2, ip, path, method, app_status, t)

(* __call__ that counts the request of a blocked client in the trackers   *)
(* before it answers 403                                                  *)
gate_call_count_then_reject(T, B, E, ip, path, method, app_status, t) ==
    LET st0 == [trackers |-> T, ipblocks |-> B, events |-> E,
                status |-> 0, forwarded |-> FALSE,
                retry_after |-> NoTime, checked |-> << >>]
    IN  IF is_ip_blocked(B, ip, t)
        THEN LET st1 == sensitive_loop(1, [st0 EXCEPT !.events = Append(E,
                             SecurityEvent("ip_blocked", "high", ip, path, t))],
                             ip, path, t)
             IN  [st1 EXCEPT !.status = 403, !.retry_after = NoTime]
        ELSE LET st1 == sensitive_loop(1, st0, ip, path, t)
             IN  IF st1.status = 429 THEN st1
                 ELSE LET st2 == general_check(st1, ip, path, t)
                      IN  IF st2.status = 429 THEN st2
                          ELSE after_response(st2, ip, path, method, app_status, t)

(* __call__ that looks at the block store for API paths only *)
gate_call_api_only(T, B, E, ip, path, method, app_status, t) ==
    LET st0 == [trackers |-> T, ipblocks |-> B, events |-> E,
                status |-> 0, forwarded |-> FALSE,
                retry_after |-> NoTime, checked |-> << >>]
    IN  IF is_ip_blocked(B, ip, t) /\ API_PATTERN_match(path)
        THEN [st0 EXCEPT !.events = Append(E,
                             SecurityEvent("ip_blocked", "high", ip, path, t)),
                         !.status = 403]
        ELSE LET st1 == sensitive_loop(1, st0, ip, path, t)
             IN  IF st1.status = 429 THEN st1
                 ELSE LET st2 == general_check(st1, ip, path, t)
                      IN  IF st2.status = 429 THEN st2
                          ELSE after_response(st2, ip, path, method, app_status, t)

(* SecurityMiddleware.__call__; status 0 stands for "no response yet" *)
gate_call(T, B, E, ip, path, method, app_status, t) ==
    LET st0 == [trackers |-> T, ipblocks |-> B, events |-> E,
                status |-> 0, forwarded |-> FALSE,
                retry_after |-> NoTime, checked |-> << >>]
    IN  IF is_ip_blocked(B, ip, t)
        THEN [st0 EXCEPT !.events = Append(E,
                             SecurityEvent("ip_blocked", "high", ip, path, t)),
                         !.status = 403]
        ELSE LET st1 == sensitive_loop(1, st0, ip, path, t)
             IN  IF st1.status = 429 THEN st1
                 ELSE LET st2 == general_check(st1, ip, path, t)
                      IN  IF st2.status = 429 THEN st2
                          ELSE after_response(st2, ip, path, method, app_status, t)

(* The rows __call__ writes to SecurityEvent and IPBlock, in the order of  *)
(* the code: the events of the request, with the IPBlock row of block_ip  *)
(* just before block_ip's own ip_blocked event.  block_at is the place of *)
(* that event among the new events (0: the request blocks nobody).        *)
gate_writes(E, g) ==
    LET new == SubSeq(g.events, Len(E) + 1, Len(g.events))
        blocks == {j \in DOMAIN new : /\ new[j].event_type = "ip_blocked"
                                      /\ new[j].endpoint = << >>}
        block_at == IF blocks = {} THEN 0 ELSE CHOOSE j \in blocks : TRUE
    IN  [new |-> new, block_at |-> block_at,
         count |-> Len(new) + (IF block_at = 0 THEN 0 ELSE 1)]

(* What becomes of a request through __call__ (g: its result when every   *)
(* write succeeds, from the stores B and E) when its k-th write to        *)
(* SecurityEvent or IPBlock raises a database error: nothing in __call__, *)
(* _handle_failed_login or block_ip catches it, the writes before it stay *)
(* (each is committed on its own), and the requester gets the server's    *)
(* error response, status 500                                             *)
storage_error(B, E, g, k) ==
    LET w == gate_writes(E, g)
        events_written == IF w.block_at # 0 /\ k > w.block_at THEN k - 2
                          ELSE k - 1
    IN  IF k > w.count THEN g
        ELSE [g EXCEPT !.events = E \o SubSeq(w.new, 1, events_written),
                       !.ipblocks = IF w.block_at # 0 /\ k > w.block_at
                                    THEN g.ipblocks ELSE B,
                       !.status = 500,
                       !.retry_after = NoTime]

(* --------------------------- admin tooling ---------------------------- *)
(* IPBlockCreateSerializer.create *)
serializer_create(B, E, ip, reason, duration_hours, is_permanent, t) ==
    block_ip(B, E, ip, reason, duration_hours, is_permanent, AdminUser,
             "", t)

(* the loop of IPBlockViewSet.bulk_unblock over ip_addresses[i..]; acc    *)
(* carries the block store, the log and the result of every unblock_ip    *)
RECURSIVE bulk_unblock_loop(_, _, _, _)
bulk_unblock_loop(i, ip_addresses, acc, t) ==
    IF i > Len(ip_addresses) THEN acc
    ELSE LET ip == ip_addresses[i]
             u == unblock_ip(acc.ipblocks, ip)
         IN  bulk_unblock_loop(i + 1, ip_addresses,
                 [ipblocks |-> u.ipblocks,
                  events |-> IF u.ret
                             THEN Append(acc.events,
                                      SecurityEvent("suspicious", "low", ip, << >>, t))
                             ELSE acc.events,
                  calls |-> Append(acc.calls, [ip |-> ip, ret |-> u.ret])],
                 t)

(* users.views.mfa_verify for an authenticated user: the view's own rate  *)
(* limit, then the code check.  outcome is what the request carries: no   *)
(* code, a valid code or an invalid one                                   *)
mfa_verify(T, E, ip, outcome, t) ==
    LET c == check_rate_limit(T, ip, "mfa_verify", MFA_MAX_REQUESTS,
                              WINDOW_60_SECONDS, t)
    IN  IF ~c.allowed
        THEN [trackers |-> c.trackers,
              events |-> Append(E, SecurityEvent("rate_limit", "high", ip,
                                                 P_MFA_VERIFY, t)),
              status |-> 429]
        ELSE IF outcome = "no_code"
        THEN [trackers |-> c.trackers, events |-> E, status |-> 400]
        ELSE IF outcome = "valid"
        THEN [trackers |-> c.trackers,
              events |-> Append(E, SecurityEvent("login_success", "low", ip,
                                                 << >>, t)),
              status |-> 200]
        ELSE [trackers |-> c.trackers,
              events |-> Append(E, SecurityEvent("login_fail", "medium", ip,
                                                 P_MFA_VERIFY, t)),
              status |-> 400]

(* ------------------------------- state -------------------------------- *)
Init ==
    /\ now = 0
    /\ trackers = {}
    /\ ipblocks = {}
    /\ events = << >>
    /\ procs = [p \in Procs |-> IdleProc]

(* the clock advances between requests *)
Tick ==
    /\ now < MaxTime
    /\ now' = now + 1
    /\ UNCHANGED <<trackers, ipblocks, events, procs>>

(* one request through SecurityMiddleware.__call__; app_status is the     *)
(* status the application answers if the request is forwarded             *)
GateRequest(ip, path, method, app_status) ==
    LET g == gate_call(trackers, ipblocks, events, ip, path, method,
                       app_status, now)
    IN  /\ trackers' = g.trackers
        /\ ipblocks' = g.ipblocks
        /\ events' = g.events
        /\ UNCHANGED <<now, procs>>

(* POST /api/auth/mfa/verify/: through __call__ and, if the gate forwards *)
(* it, into mfa_verify.  The path is under no sensitive prefix and is     *)
(* neither the login nor the registration endpoint, so steps 4 and 5 of   *)
(* __call__ write nothing whatever the view answers                       *)
MfaRequest(ip, outcome) ==
    \E g \in {gate_call(trackers, ipblocks, events, ip, P_MFA_VERIFY, "POST",
                        200, now)} :
        \E v \in {mfa_verify(g.trackers, g.events, ip, outcome, now)} :
            /\ trackers' = IF g.forwarded THEN v.trackers ELSE g.trackers
            /\ events' = IF g.forwarded THEN v.events ELSE g.events
            /\ ipblocks' = g.ipblocks
            /\ UNCHANGED <<now, procs>>

(* one request through __call__ during which the k-th write to            *)
(* SecurityEvent or IPBlock fails                                         *)
GateRequestStorageError(ip, path, method, app_status, k) ==
    LET g == gate_call(trackers, ipblocks, events, ip, path, method,
                       app_status, now)
        f == storage_error(ipblocks, events, g, k)
    IN  /\ k <= gate_writes(events, g).count
        /\ trackers' = f.trackers
        /\ ipblocks' = f.ipblocks
        /\ events' = f.events
        /\ UNCHANGED <<now, procs>>

(* POST /api/ip-blocks/ by an administrator *)
AdminBlock(ip, reason, duration_hours, is_permanent) ==
    LET b == serializer_create(ipblocks, events, ip, reason, duration_hours,
                               is_permanent, now)
    IN  /\ ipblocks' = b.ipblocks
        /\ events' = b.events
        /\ UNCHANGED <<now, trackers, procs>>

(* IPBlockViewSet.unblock: POST /api/ip-blocks/<pk>/unblock/ *)
AdminUnblock(pk) ==
    \E ip_block \in ipblocks :
        /\ ip_block.id = pk
        /\ events' = Append(events,
               SecurityEvent("suspicious", "low", ip_block.ip_address, << >>, now))
        /\ ipblocks' = ipblocks \ {ip_block}
        /\ UNCHANGED <<now, trackers, procs>>

(* IPBlockViewSet.bulk_unblock; an empty list is answered 400 *)
BulkUnblock(ip_addresses) ==
    /\ ip_addresses # << >>
    /\ LET u == bulk_unblock_loop(1, ip_addresses,
                    [ipblocks |-> ipblocks, events |-> events, calls |-> << >>],
                    now)
       IN  /\ ipblocks' = u.ipblocks
           /\ events' = u.events
    /\ UNCHANGED <<now, trackers, procs>>

(* DELETE /api/ip-blocks/<pk>/ by an administrator: IPBlockViewSet is a   *)
(* ModelViewSet, whose destroy deletes the row and writes no event        *)
AdminDestroy(pk) ==
    \E ip_block \in ipblocks :
        /\ ip_block.id = pk
        /\ ipblocks' = ipblocks \ {ip_block}
        /\ UNCHANGED <<now, trackers, events, procs>>

(* ------------------- calls of several workers at once ----------------- *)
(* check_rate_limit, one database statement per step.  Every worker calls *)
(* it for the same key, as the general API check of one client does.      *)
RaceIp == "10.0.0.1"
RaceEndpoint == "api_general"

LiveRows(T, t) ==
    {r \in T : /\ r.ip_address = RaceIp
               /\ r.endpoint = RaceEndpoint
               /\ r.window_start >= t - WINDOW_60_SECONDS}

(* lines 190-194: read the clock, delete the old trackers *)
rl_begin(p) ==
    /\ procs[p].pc = "idle"
    /\ procs[p].calls < MaxCalls
    /\ trackers' = {r \in trackers : ~(r.window_start < now - WINDOW_60_SECONDS)}
    /\ procs' = [procs EXCEPT ![p].pc = "get", ![p].t = now,
                              ![p].row = {}, ![p].created = FALSE]
    /\ UNCHANGED <<now, ipblocks, events>>

(* the lookup of get_or_create: one row, none (DoesNotExist) or several   *)
(* (MultipleObjectsReturned)                                              *)
rl_get(p) ==
    /\ procs[p].pc = "get"
    /\ LET found == LiveRows(trackers, procs[p].t)
       IN  procs' = [procs EXCEPT
                        ![p].pc = IF found = {} THEN "create"
                                  ELSE IF Cardinality(found) = 1 THEN "check"
                                  ELSE "dedup",
                        ![p].row = IF Cardinality(found) = 1 THEN found ELSE {}]
    /\ UNCHANGED <<now, trackers, ipblocks, events>>

(* the insert of get_or_create; window_start is auto_now_add.  Two rows   *)
(* of the key written within one clock tick have the same window_start    *)
(* (the insert violates unique_together and get_or_create looks the row   *)
(* up again) or window_starts that differ by less than a tick (the insert *)
(* goes through)                                                          *)
rl_create(p) ==
    /\ procs[p].pc = "create"
    /\ LET tracker == [id |-> new_id(trackers), ip_address |-> RaceIp,
                       endpoint |-> RaceEndpoint, request_count |-> 0,
                       window_start |-> now]
           same == {r \in trackers : /\ r.ip_address = RaceIp
                                     /\ r.endpoint = RaceEndpoint
                                     /\ r.window_start = now}
       IN  \/ /\ trackers' = trackers \cup {tracker}
              /\ procs' = [procs EXCEPT ![p].pc = "check", ![p].row = {tracker},
                                        ![p].created = TRUE]
           \/ /\ same # {}
              /\ procs' = [procs EXCEPT ![p].pc = "reget"]
              /\ UNCHANGED trackers
    /\ UNCHANGED <<now, ipblocks, events>>

(* get_or_create after the IntegrityError: the lookup again; if the row   *)
(* is gone by now the IntegrityError is raised to the caller              *)
rl_reget(p) ==
    /\ procs[p].pc = "reget"
    /\ LET found == LiveRows(trackers, procs[p].t)
       IN  procs' = [procs EXCEPT
                        ![p].pc = IF found = {} THEN "error"
                                  ELSE IF Cardinality(found) = 1 THEN "check"
                                  ELSE "dedup",
                        ![p].row = IF Cardinality(found) = 1 THEN found ELSE {}]
    /\ UNCHANGED <<now, trackers, ipblocks, events>>

(* lines 205-213: keep the row of the lowest id, delete the others *)
rl_dedup(p) ==
    /\ procs[p].pc = "dedup"
    /\ LET found == LiveRows(trackers, procs[p].t)
       IN  IF found = {}
           THEN /\ procs' = [procs EXCEPT ![p].pc = "error"]
                /\ UNCHANGED trackers
           ELSE /\ trackers' = trackers \ (found \ {MinId(found)})
                /\ procs' = [procs EXCEPT ![p].pc = "check",
                                          ![p].row = {MinId(found)}]
    /\ UNCHANGED <<now, ipblocks, events>>

(* lines 215-223: the comparison on the row as it was read, and the save  *)
(* of the incremented count (an UPDATE of the row with that id; it fails  *)
(* if the row is gone)                                                    *)
rl_check(p) ==
    /\ procs[p].pc = "check"
    /\ LET tracker == CHOOSE r \in procs[p].row : TRUE
           stored == {r \in trackers : r.id = tracker.id}
       IN  IF limit_reached(tracker.request_count, MAX_API_CALLS_PER_MINUTE)
           THEN /\ procs' = [procs EXCEPT ![p].pc = "idle",
                                          ![p].calls = procs[p].calls + 1]
                /\ UNCHANGED trackers
           ELSE IF stored = {}
           THEN /\ procs' = [procs EXCEPT ![p].pc = "error"]
                /\ UNCHANGED trackers
           ELSE /\ trackers' = (trackers \ stored) \cup
                       {[r EXCEPT !.request_count = tracker.request_count + 1] :
                            r \in stored}
                /\ procs' = [procs EXCEPT ![p].pc = "idle",
                                          ![p].calls = procs[p].calls + 1,
                                          ![p].allowed = procs[p].allowed + 1]
    /\ UNCHANGED <<now, ipblocks, events>>

(* block_ip as _auto_block_ip calls it, one database statement per step; *)
(* every worker blocks the same client                                    *)
(* lines 113-127: update_or_create runs in a transaction of its own and   *)
(* hands back the row as it read it                                       *)
blk_update_or_create(p) ==
    /\ procs[p].pc = "idle"
    /\ procs[p].calls < MaxCalls
    /\ LET uc == update_or_create(ipblocks, RaceIp, "auto",
                                  "Brute force login attempts",
                                  now + BLOCK_DURATION_HOURS * TICKS_PER_HOUR,
                                  FALSE, NoUser, now)
       IN  /\ ipblocks' = {r \in ipblocks : r.id # uc.row.id} \cup {uc.row}
           /\ procs' = [procs EXCEPT
                            ![p].pc = IF uc.created THEN "event" ELSE "incr",
                            ![p].t = now, ![p].row = {uc.row},
                            ![p].created = uc.created]
    /\ UNCHANGED <<now, trackers, events>>

(* lines 129-130 and 102-106: the counter of the row as it was read, plus *)
(* one, saved with update_fields (an UPDATE of the row with that id)      *)
blk_increment_attempts(p) ==
    /\ procs[p].pc = "incr"
    /\ LET ip_block == increment_attempts(CHOOSE r \in procs[p].row : TRUE, now)
           stored == {r \in ipblocks : r.id = ip_block.id}
       IN  IF stored = {}
           THEN /\ procs' = [procs EXCEPT ![p].pc = "error"]
                /\ UNCHANGED ipblocks
           ELSE /\ ipblocks' = (ipblocks \ stored) \cup
                       {[r EXCEPT !.attempt_count = ip_block.attempt_count] :
                            r \in stored}
                /\ procs' = [procs EXCEPT ![p].pc = "event",
                                          ![p].row = {ip_block}]
    /\ UNCHANGED <<now, trackers, events>>

(* block_ip that logs the event only for a row it created *)
blk_event_created_only(p) ==
    /\ procs[p].pc = "event"
    /\ events' = IF procs[p].created
                 THEN Append(events,
                          SecurityEvent("ip_blocked", "high", RaceIp, << >>, now))
                 ELSE events
    /\ procs' = [procs EXCEPT ![p].pc = "idle", ![p].calls = procs[p].calls + 1]
    /\ UNCHANGED <<now, trackers, ipblocks>>

(* lines 133-144: the ip_blocked event, and the return *)
blk_event(p) ==
    /\ procs[p].pc = "event"
    /\ events' = Append(events,
                        SecurityEvent("ip_blocked", "high", RaceIp, << >>, now))
    /\ procs' = [procs EXCEPT ![p].pc = "idle", ![p].calls = procs[p].calls + 1]
    /\ UNCHANGED <<now, trackers, ipblocks>>

(* ------------------------- the specifications ------------------------ *)
(* The event log only grows; every specification stops appending at a     *)
(* bound of its own.                                                      *)
AdminReasons == {"manual"}
AdminDurations == {NoHours, 1}
IpLists == {<<a>> : a \in IPs} \cup {<<a, b>> : a \in IPs, b \in IPs}

Req(p, m, st) == [path |-> p, method |-> m, status |-> st]

AllRequests ==
    {Req(p, m, st) : p \in Paths, m \in Methods, st \in AppStatuses}

(* the whole system *)
Next ==
    \/ Tick
    \/ \E ip \in IPs, q \in AllRequests :
           GateRequest(ip, q.path, q.method, q.status) /\ Len(events') <= MaxEvents
    \/ \E ip \in IPs, reason \in AdminReasons, d \in AdminDurations, p \in BOOLEAN :
           AdminBlock(ip, reason, d, p) /\ Len(events') <= MaxEvents
    \/ \E pk \in {r.id : r \in ipblocks} :
           AdminUnblock(pk) /\ Len(events') <= MaxEvents
    \/ \E l \in IpLists : BulkUnblock(l) /\ Len(events') <= MaxEvents

Spec == Init /\ [][Next]_vars

(* one client's traffic on the login endpoint and on the general API      *)
RateIPs == {"10.0.0.1"}
RateRequests ==
    {Req(P_LOGIN, "POST", 200), Req(P_LOGIN, "POST", 401), Req(P_GAMES, "GET", 200)}

NextRate ==
    \/ Tick
    \/ \E ip \in RateIPs, q \in RateRequests :
           GateRequest(ip, q.path, q.method, q.status)
               /\ Len(events') <= MaxRateEvents

SpecRate == Init /\ [][NextRate]_vars

(* the administrators' block and unblock operations on two clients, and   *)
(* the clients' requests to a page outside the API                        *)
NextBlock ==
    \/ Tick
    \/ \E ip \in IPs :
           GateRequest(ip, P_MEDIA, "GET", 200) /\ Len(events') <= MaxBlockEvents
    \/ \E ip \in IPs, reason \in AdminReasons, d \in AdminDurations, p \in BOOLEAN :
           AdminBlock(ip, reason, d, p) /\ Len(events') <= MaxBlockEvents
    \/ \E pk \in {r.id : r \in ipblocks} :
           AdminUnblock(pk) /\ Len(events') <= MaxBlockEvents
    \/ \E l \in IpLists : BulkUnblock(l) /\ Len(events') <= MaxBlockEvents

SpecBlock == Init /\ [][NextBlock]_vars

(* one client that fails logins until the gate blocks it, with the        *)
(* administrators blocking and unblocking the same client                 *)
NextAuto ==
    \/ Tick
    \/ \E ip \in RateIPs :
           GateRequest(ip, P_LOGIN, "POST", 401) /\ Len(events') <= MaxAutoEvents
    \/ \E ip \in RateIPs, p \in BOOLEAN :
           AdminBlock(ip, "manual", NoHours, p) /\ Len(events') <= MaxAutoEvents
    \/ \E pk \in {r.id : r \in ipblocks} :
           AdminUnblock(pk) /\ Len(events') <= MaxAutoEvents
    \/ \E ip \in RateIPs : BulkUnblock(<<ip>>) /\ Len(events') <= MaxAutoEvents

SpecAuto == Init /\ [][NextAuto]_vars

(* one client that keeps posting to the login endpoint, the application   *)
(* accepting every login that reaches it                                  *)
NextSens ==
    \/ Tick
    \/ \E ip \in RateIPs :
           GateRequest(ip, P_LOGIN, "POST", 200) /\ Len(events') <= MaxSensEvents

SpecSens == Init /\ [][NextSens]_vars

(* one client's accepted logins and reads of the general API: requests    *)
(* that a sensitive rule and the general rule both count                  *)
NextOrder ==
    \/ Tick
    \/ \E ip \in RateIPs :
           GateRequest(ip, P_LOGIN, "POST", 200) /\ Len(events') <= MaxOrderEvents
    \/ \E ip \in RateIPs :
           GateRequest(ip, P_GAMES, "GET", 200) /\ Len(events') <= MaxOrderEvents

SpecOrder == Init /\ [][NextOrder]_vars

(* the workers' check_rate_limit calls for one key, interleaved *)
NextRace ==
    \/ Tick
    \/ \E p \in Procs : rl_begin(p)
    \/ \E p \in Procs : rl_get(p)
    \/ \E p \in Procs : rl_create(p)
    \/ \E p \in Procs : rl_reget(p)
    \/ \E p \in Procs : rl_dedup(p)
    \/ \E p \in Procs : rl_check(p)

SpecRace == Init /\ [][NextRace]_vars

(* the workers' block_ip calls for one client, interleaved *)
NextBlockRace ==
    \/ Tick
    \/ \E p \in Procs : blk_update_or_create(p)
    \/ \E p \in Procs : blk_increment_attempts(p)
    \/ \E p \in Procs : blk_event(p)

SpecBlockRace == Init /\ [][NextBlockRace]_vars

(* one client's failed logins while writes to the security tables can     *)
(* fail                                                                   *)
WriteNumbers == 1..4

NextFail ==
    \/ Tick
    \/ \E ip \in RateIPs :
           GateRequest(ip, P_LOGIN, "POST", 401)
               /\ Len(events') <= MaxFailEvents
    \/ \E ip \in RateIPs, k \in WriteNumbers :
           GateRequestStorageError(ip, P_LOGIN, "POST", 401, k)
               /\ Len(events') <= MaxFailEvents

SpecFail == Init /\ [][NextFail]_vars

(* one client's failed logins, registrations and reads of the general     *)
(* API, with an administrator blocking the client                         *)
GateRequests ==
    {Req(P_LOGIN, "POST", 401), Req(P_REGISTER, "POST", 201),
     Req(P_GAMES, "GET", 200)}

(* one request of every kind the gate tells apart: those, and a page      *)
(* outside the API                                                        *)
ProbeRequests == GateRequests \cup {Req(P_MEDIA, "GET", 200)}

NextGate ==
    \/ Tick
    \/ \E ip \in RateIPs, q \in GateRequests :
           GateRequest(ip, q.path, q.method, q.status)
               /\ Len(events') <= MaxGateEvents
    \/ \E ip \in RateIPs :
           AdminBlock(ip, "manual", NoHours, TRUE) /\ Len(events') <= MaxGateEvents

SpecGate == Init /\ [][NextGate]_vars

(* one client's failed logins and registrations, with an administrator    *)
(* blocking the client                                                    *)
NextResp ==
    \/ Tick
    \/ \E ip \in RateIPs :
           GateRequest(ip, P_LOGIN, "POST", 401) /\ Len(events') <= MaxRespEvents
    \/ \E ip \in RateIPs :
           GateRequest(ip, P_REGISTER, "POST", 201) /\ Len(events') <= MaxRespEvents
    \/ \E ip \in RateIPs :
           AdminBlock(ip, "manual", NoHours, TRUE) /\ Len(events') <= MaxRespEvents

SpecResp == Init /\ [][NextResp]_vars

(* the life of one client's IPBlock row: timed blocks by an administrator *)
(* and by the gate, their expiry, and every way the administrators have   *)
(* of removing the row                                                    *)
NextLife ==
    \/ Tick
    \/ \E ip \in RateIPs :
           GateRequest(ip, P_LOGIN, "POST", 401) /\ Len(events') <= MaxLifeEvents
    \/ \E ip \in RateIPs :
           AdminBlock(ip, "manual", NoHours, FALSE) /\ Len(events') <= MaxLifeEvents
    \/ \E pk \in {r.id : r \in ipblocks} :
           AdminUnblock(pk) /\ Len(events') <= MaxLifeEvents
    \/ \E ip \in RateIPs : BulkUnblock(<<ip>>) /\ Len(events') <= MaxLifeEvents
    \/ \E pk \in {r.id : r \in ipblocks} : AdminDestroy(pk)

SpecLife == Init /\ [][NextLife]_vars

(* one client that fails logins and, up to MaxMfaFails times, an MFA      *)
(* verification, and the administrators unblocking it                     *)
MfaFails ==
    Cardinality({i \in DOMAIN events : /\ events[i].event_type = "login_fail"
                                       /\ events[i].endpoint = P_MFA_VERIFY})

NextMfa ==
    \/ Tick
    \/ \E ip \in RateIPs :
           GateRequest(ip, P_LOGIN, "POST", 401) /\ Len(events') <= MaxMfaEvents
    \/ \E ip \in RateIPs :
           /\ MfaFails < MaxMfaFails
           /\ MfaRequest(ip, "invalid") /\ Len(events') <= MaxMfaEvents
    \/ \E pk \in {r.id : r \in ipblocks} :
           AdminUnblock(pk) /\ Len(events') <= MaxMfaEvents

SpecMfa == Init /\ [][NextMfa]_vars

(* one client's registrations and reads of its own account, two paths     *)
(* under the registration prefix                                          *)
NextKey ==
    \/ Tick
    \/ \E ip \in RateIPs :
           GateRequest(ip, P_REGISTER, "POST", 201) /\ Len(events') <= MaxKeyEvents
    \/ \E ip \in RateIPs :
           GateRequest(ip, P_USERS_ME, "GET", 200) /\ Len(events') <= MaxKeyEvents

SpecKey == Init /\ [][NextKey]_vars

(* ------------------------- vocabulary of the claims ------------------- *)
(* the (endpoint, max_requests, window) triples the gate calls            *)
(* check_rate_limit with                                                  *)
RateRules ==
    {[endpoint |-> SENSITIVE_ENDPOINTS[i].endpoint,
      max_requests |-> SENSITIVE_ENDPOINTS[i].max_requests,
      window |-> SENSITIVE_ENDPOINTS[i].window] : i \in DOMAIN SENSITIVE_ENDPOINTS}
    \cup {[endpoint |-> "api_general", max_requests |-> MAX_API_CALLS_PER_MINUTE,
           window |-> WINDOW_60_SECONDS]}

KeyRows(T, ip, endpoint) ==
    {r \in T : r.ip_address = ip /\ r.endpoint = endpoint}

BlockRows(B, ip) == {r \in B : r.ip_address = ip}

(* the block of a client is in force at time t, in the words of the data  *)
(* model                                                                  *)
ActiveBlock(B, ip, t) ==
    \E r \in BlockRows(B, ip) :
        r.is_permanent \/ (r.blocked_until # NoTime /\ t < r.blocked_until)

(* the events a step appends *)
NewEvents == SubSeq(events', Len(events) + 1, Len(events'))


(* the step contains a block_ip call for the client: block_ip is the only *)
(* writer of ip_blocked events without an endpoint                        *)
BlockCall(ip) ==
    \E i \in DOMAIN NewEvents :
        NewEvents[i] = SecurityEvent("ip_blocked", "high", ip, << >>, now)

(* the rows of the block store that the step removes *)
RemovedRows == {r \in ipblocks : \A r2 \in ipblocks' : r2.id # r.id}

(* the step is an unblock of the row's client: the unblock action and     *)
(* bulk_unblock write a 'suspicious' event for every client they unblock  *)
UnblockOf(r) ==
    \E i \in DOMAIN NewEvents :
        NewEvents[i] = SecurityEvent("suspicious", "low", r.ip_address, << >>, now)

(* the passing of time and the requests at the gate remove no row, and a  *)
(* block_ip call for a client that has a row, expired or not, keeps the   *)
(* row's id and blocked_at and adds one to its attempt_count              *)
RowOutlivesExpiry ==
    /\ (now' # now \/ trackers' # trackers) => RemovedRows = {}
    /\ \A r \in ipblocks :
           BlockCall(r.ip_address)
               => \E r2 \in ipblocks' :
                      /\ r2.id = r.id
                      /\ r2.blocked_at = r.blocked_at
                      /\ r2.attempt_count = r.attempt_count + 1

(* ------------------------------- claims ------------------------------- *)

(* C1: inside one window the calls of a key are allowed exactly while the *)
(* stored count is below max_requests: the first call of the key returns  *)
(* allowed with count 1, every allowed call returns and stores the count  *)
(* plus one, the call at count max_requests - 1 is allowed, and the call  *)
(* at count max_requests is rejected with seconds_until_reset > 0.        *)
C1_SlidingWindow ==
    \A ip \in IPs, k \in RateRules :
        LET c == check_rate_limit(trackers, ip, k.endpoint, k.max_requests,
                                  k.window, now)
            rows == KeyRows(trackers, ip, k.endpoint)
            inside == {r \in rows : now - r.window_start < k.window}
        IN  /\ rows = {} => c.allowed /\ c.count = 1
            /\ \A r \in inside :
                 /\ c.allowed <=> r.request_count < k.max_requests
                 /\ r.request_count = k.max_requests - 1 => c.allowed
                 /\ c.allowed =>
                      /\ c.count = r.request_count + 1
                      /\ \E q \in KeyRows(c.trackers, ip, k.endpoint) :
                             q.id = r.id /\ q.request_count = c.count
                 /\ ~c.allowed => c.reset > 0

(* a full window: max_requests calls were allowed, a further one was      *)
(* rejected, and the window is still running                              *)
C1_Witness ==
    \E r \in trackers :
        /\ r.endpoint = "api_general"
        /\ r.request_count = MAX_API_CALLS_PER_MINUTE
        /\ r.window_start < now
        /\ now - r.window_start < WINDOW_60_SECONDS
        /\ \E i \in DOMAIN events :
               /\ events[i].event_type = "rate_limit"
               /\ events[i].severity = "low"
               /\ events[i].ip_address = r.ip_address
               /\ events[i].timestamp >= r.window_start

(* C2: a check that returns not-allowed leaves the rows of its key as     *)
(* they were (the stored request_count is not incremented) and returns    *)
(* the stored count.                                                      *)
C2_NoCountOnReject ==
    \A ip \in IPs, k \in RateRules :
        LET c == check_rate_limit(trackers, ip, k.endpoint, k.max_requests,
                                  k.window, now)
            live == {r \in KeyRows(trackers, ip, k.endpoint) :
                         r.window_start >= now - k.window}
        IN  ~c.allowed =>
                /\ live # {}
                /\ KeyRows(c.trackers, ip, k.endpoint) = live
                /\ \A r \in live : c.count = r.request_count

(* a rejected general check has happened in the running window *)
C2_Witness ==
    \E r \in trackers :
        /\ r.endpoint = "api_general"
        /\ r.window_start >= now - WINDOW_60_SECONDS
        /\ ~check_rate_limit(trackers, r.ip_address, "api_general",
                             MAX_API_CALLS_PER_MINUTE, WINDOW_60_SECONDS,
                             now).allowed
        /\ \E i \in DOMAIN events :
               /\ events[i].event_type = "rate_limit"
               /\ events[i].severity = "low"
               /\ events[i].ip_address = r.ip_address
               /\ events[i].timestamp >= r.window_start

(* C3: once window_seconds have elapsed since the window of a key began   *)
(* (now >= window_start + window_seconds for every row of the key), the   *)
(* next call is allowed with count 1 - also at the instant                *)
(* now = window_start + window_seconds.                                   *)
C3_WindowReset ==
    \A ip \in IPs, k \in RateRules :
        LET c == check_rate_limit(trackers, ip, k.endpoint, k.max_requests,
                                  k.window, now)
            rows == KeyRows(trackers, ip, k.endpoint)
        IN  (rows # {} /\ \A r \in rows : now >= r.window_start + k.window)
                => c.allowed /\ c.count = 1

(* C4: while a client's block is in force, every request of the client,   *)
(* whatever its path, method and the answer the application would give,   *)
(* is answered 403 and not forwarded.                                     *)
C4_BlockedGets403 ==
    \A ip \in IPs, q \in AllRequests :
        LET g == gate_call(trackers, ipblocks, events, ip, q.path, q.method,
                           q.status, now)
        IN  ActiveBlock(ipblocks, ip, now) => g.status = 403 /\ ~g.forwarded

(* the gate has turned a blocked client away at this instant *)
C4_Witness ==
    \E i \in DOMAIN events :
        /\ events[i].event_type = "ip_blocked"
        /\ events[i].endpoint = P_MEDIA
        /\ events[i].timestamp = now
        /\ ActiveBlock(ipblocks, events[i].ip_address, now)

(* C5: for every row and every time t, is_blocked is is_permanent or      *)
(* (blocked_until is set and t < blocked_until); a client without a row   *)
(* is not blocked.                                                        *)
C5_IsBlocked ==
    /\ \A r \in ipblocks, t \in 0..(MaxTime + MaxTime) :
         /\ is_blocked(r, t) =
                (r.is_permanent \/ (r.blocked_until # NoTime /\ t < r.blocked_until))
         /\ r.is_permanent => is_blocked(r, t)
         /\ (~r.is_permanent /\ t >= r.blocked_until) => ~is_blocked(r, t)
    /\ \A ip \in IPs :
         /\ BlockRows(ipblocks, ip) = {} => ~is_ip_blocked(ipblocks, ip, now)
         /\ is_ip_blocked(ipblocks, ip, now) = ActiveBlock(ipblocks, ip, now)

(* a timed block at its expiry instant *)
C5_Witness ==
    \E r \in ipblocks :
        /\ ~r.is_permanent
        /\ r.blocked_until = now
        /\ ~is_ip_blocked(ipblocks, r.ip_address, now)

(* C6: the block store never holds two rows of one client, and a block_ip *)
(* on a client that has a row keeps that row (same id) and adds none.     *)
C6_OneRowPerClient ==
    [][ /\ \A r1 \in ipblocks', r2 \in ipblocks' :
             r1.ip_address = r2.ip_address => r1 = r2
        /\ \A ip \in IPs :
             (BlockCall(ip) /\ BlockRows(ipblocks, ip) # {}) =>
                 /\ Cardinality(ipblocks') = Cardinality(ipblocks)
                 /\ {r.id : r \in BlockRows(ipblocks', ip)}
                        = {r.id : r \in BlockRows(ipblocks, ip)} ]_vars

(* a row the administrator created and, later, the gate's automatic       *)
(* block updated                                                          *)
C6_Witness ==
    \E r \in ipblocks :
        /\ r.reason = "auto"
        /\ r.attempt_count >= 1
        /\ r.blocked_at < now
        /\ events[Len(events)].event_type = "brute_force"

(* C7: block_ip creates the row with attempt_count 1, every further       *)
(* block_ip adds exactly one, and the client is blocked after each call.  *)
C7_AttemptCount ==
    [][ \A ip \in IPs :
          BlockCall(ip) =>
              /\ BlockRows(ipblocks', ip) # {}
              /\ \A n \in BlockRows(ipblocks', ip) :
                    /\ BlockRows(ipblocks, ip) = {} => n.attempt_count = 1
                    /\ \A o \in BlockRows(ipblocks, ip) :
                           n.attempt_count = o.attempt_count + 1
              /\ is_ip_blocked(ipblocks', ip, now) ]_vars

(* C8: unblock_ip returns true exactly when the client had a row, removes *)
(* that row and nothing else, and afterwards the client is not blocked    *)
(* and no request of it is answered 403; after an unblock by either       *)
(* admin view the client has no row.                                      *)
C8_Unblock ==
    \A ip \in IPs :
        LET u == unblock_ip(ipblocks, ip)
        IN  /\ u.ret = (BlockRows(ipblocks, ip) # {})
            /\ u.ipblocks = ipblocks \ BlockRows(ipblocks, ip)
            /\ ~is_ip_blocked(u.ipblocks, ip, now)
            /\ \A q \in AllRequests :
                   gate_call(trackers, u.ipblocks, events, ip, q.path,
                             q.method, q.status, now).status # 403
            /\ (/\ events # << >>
                /\ events[Len(events)]
                     = SecurityEvent("suspicious", "low", ip, << >>,
                                     events[Len(events)].timestamp))
                   => /\ BlockRows(ipblocks, ip) = {}
                      /\ \A q \in AllRequests :
                             gate_call(trackers, ipblocks, events, ip, q.path,
                                       q.method, q.status, now).status # 403

(* a client that was blocked, turned away by the gate and then unblocked *)
C8_Witness ==
    /\ Len(events) >= 3
    /\ events[Len(events)].event_type = "suspicious"
    /\ \E i \in DOMAIN events :
           /\ events[i].event_type = "ip_blocked"
           /\ events[i].endpoint = P_MEDIA
           /\ events[i].ip_address = events[Len(events)].ip_address
    /\ BlockRows(ipblocks, events[Len(events)].ip_address) = {}

(* C9: a forwarded login answered 401 appends a login_fail event; if the  *)
(* client then has AUTO_BLOCK_THRESHOLD or more login_fail events in the  *)
(* last 15 minutes the same request writes one auto IPBlock and appends   *)
(* ip_blocked and then one critical brute_force event; below the          *)
(* threshold the block store is untouched and nothing else is appended.   *)
C9_BruteForce ==
    [][ \A ip \in IPs :
          (NewEvents # << >> /\
           NewEvents[1] = SecurityEvent("login_fail", "medium", ip, P_LOGIN, now))
          =>
          LET fails == Cardinality({i \in DOMAIN events' :
                          /\ events'[i].event_type = "login_fail"
                          /\ events'[i].ip_address = ip
                          /\ events'[i].timestamp >= now - MINUTES_15})
          IN  IF fails >= AUTO_BLOCK_THRESHOLD
              THEN /\ NewEvents =
                        << SecurityEvent("login_fail", "medium", ip, P_LOGIN, now),
                           SecurityEvent("ip_blocked", "high", ip, << >>, now),
                           SecurityEvent("brute_force", "critical", ip, << >>, now) >>
                   /\ Cardinality(BlockRows(ipblocks', ip)) = 1
                   /\ \A r \in BlockRows(ipblocks', ip) :
                          /\ r.reason = "auto"
                          /\ ~r.is_permanent
                          /\ r.blocked_until > now
                   /\ BlockRows(ipblocks, ip) = {} =>
                          Cardinality(ipblocks') = Cardinality(ipblocks) + 1
              ELSE /\ Len(NewEvents) = 1
                   /\ ipblocks' = ipblocks ]_vars

(* the threshold was reached: the client is blocked automatically and the *)
(* log ends with the brute_force event                                    *)
C9_Witness ==
    /\ Len(events) >= AUTO_BLOCK_THRESHOLD + 2
    /\ events[Len(events)].event_type = "brute_force"
    /\ events[Len(events)].severity = "critical"
    /\ \E r \in ipblocks :
           /\ r.ip_address = events[Len(events)].ip_address
           /\ r.reason = "auto"
           /\ r.attempt_count = 0

(* C10: a client that has already sent 3 * MAX_API_CALLS_PER_MINUTE or    *)
(* more requests to the general API in the running 60 second window       *)
(* (allowed ones counted by the tracker, rejected ones by their           *)
(* rate_limit events) gets, for its next request, a 429, an auto IPBlock  *)
(* and a critical ddos event.                                             *)
C10_DdosEscalation ==
    \A ip \in IPs :
        \A r \in KeyRows(trackers, ip, "api_general") :
            LET rejected == Cardinality({i \in DOMAIN events :
                                /\ events[i].event_type = "rate_limit"
                                /\ events[i].severity = "low"
                                /\ events[i].ip_address = ip
                                /\ events[i].timestamp >= r.window_start})
                g == gate_call(trackers, ipblocks, events, ip, P_GAMES, "GET",
                               200, now)
            IN  (/\ now - r.window_start < WINDOW_60_SECONDS
                 /\ ~ActiveBlock(ipblocks, ip, now)
                 /\ r.request_count + rejected >= DDOS_FACTOR * MAX_API_CALLS_PER_MINUTE)
                =>
                /\ g.status = 429
                /\ \E b \in BlockRows(g.ipblocks, ip) : b.reason = "auto"
                /\ g.events[Len(g.events)].event_type = "ddos"
                /\ g.events[Len(g.events)].severity = "critical"

(* C11: a client that has sent more than max_requests + 5 requests to a   *)
(* sensitive endpoint in the running window (the allowed ones counted by  *)
(* the tracker, the rejected ones by their rate_limit events) gets, for   *)
(* its next request to that endpoint, a 429 and an auto IPBlock with the  *)
(* details 'Excessive <name> attempts'.                                   *)
C11_SensitiveEscalation ==
    \A ip \in IPs, i \in DOMAIN SENSITIVE_ENDPOINTS :
        LET limits == SENSITIVE_ENDPOINTS[i]
        IN  \A r \in KeyRows(trackers, ip, limits.endpoint) :
                LET rejected == Cardinality({j \in DOMAIN events :
                                    /\ events[j].event_type = "rate_limit"
                                    /\ events[j].severity = "medium"
                                    /\ events[j].ip_address = ip
                                    /\ events[j].endpoint = limits.prefix
                                    /\ events[j].timestamp >= r.window_start})
                    g == gate_call(trackers, ipblocks, events, ip, limits.prefix,
                                   "POST", 200, now)
                IN  (/\ now - r.window_start < limits.window
                     /\ ~ActiveBlock(ipblocks, ip, now)
                     /\ r.request_count + rejected
                            > limits.max_requests + SENSITIVE_MARGIN)
                    =>
                    /\ g.status = 429
                    /\ \E b \in BlockRows(g.ipblocks, ip) :
                           b.reason = "auto" /\ b.details = limits.excessive

(* C12: whenever the gate answers 429 at an instant inside the window of  *)
(* the tracker that rejected the request, retry_after is at least 1 and   *)
(* at most the window's length in seconds.                                *)
C12_RetryAfter ==
    \A ip \in IPs, q \in AllRequests :
        LET g == gate_call(trackers, ipblocks, events, ip, q.path, q.method,
                           q.status, now)
        IN  g.status = 429 =>
                \A k \in RateRules :
                    (/\ k.endpoint = g.checked[Len(g.checked)]
                     /\ \A r \in KeyRows(trackers, ip, k.endpoint) :
                            now < r.window_start + k.window)
                    => /\ 1 <= g.retry_after
                       /\ g.retry_after * TICKS_PER_SECOND <= k.window

(* C13: whatever the interleaving of the workers' check_rate_limit calls, *)
(* a key never has two live tracker rows (window_start >= now - window).  *)
C13_OneLiveRow ==
    \A r1 \in LiveRows(trackers, now), r2 \in LiveRows(trackers, now) : r1 = r2

(* C14: when the two workers have each completed the first request of a   *)
(* brand-new client, inside one window, the stored request_count of the   *)
(* key is 2, and no first call ends in a storage error.                   *)
C14_TwoFirstRequests ==
    /\ (/\ \A p \in Procs : procs[p].pc = "idle" /\ procs[p].calls = 1
        /\ now < WINDOW_60_SECONDS)
       => /\ LiveRows(trackers, now) # {}
          /\ \A r \in LiveRows(trackers, now) : r.request_count = 2
    /\ \A p \in Procs :
           (procs[p].calls = 0 /\ now < WINDOW_60_SECONDS)
               => procs[p].pc # "error"

(* C15: when no block_ip call is under way, the client the workers have   *)
(* blocked has one IPBlock row and its attempt_count accounts for every   *)
(* completed call: the first call created the row (count 0 as the code    *)
(* creates it) and each later call added one.                             *)
C15_ConcurrentBlock ==
    (/\ \A p \in Procs : procs[p].pc = "idle"
     /\ events # << >>)
    => /\ Cardinality(BlockRows(ipblocks, RaceIp)) = 1
       /\ \A r \in BlockRows(ipblocks, RaceIp) :
              r.attempt_count = Len(events) - 1

(* C16: a request during which a write to SecurityEvent or IPBlock fails  *)
(* still ends with the outcome the gate had decided: the 403, the 429 or  *)
(* the application's response, never an error response.                   *)
C16_StorageFailure ==
    \A ip \in RateIPs, q \in RateRequests, k \in WriteNumbers :
        LET g == gate_call(trackers, ipblocks, events, ip, q.path, q.method,
                           q.status, now)
            f == storage_error(ipblocks, events, g, k)
        IN  k <= gate_writes(events, g).count =>
                /\ f.status = g.status
                /\ f.status \in {403, 429} \cup AppStatuses

(* C17: check_rate_limit called with max_requests <= 0 or with            *)
(* window_seconds <= 0 returns not-allowed, for every key and in every    *)
(* store.                                                                 *)
C17_FailClosed ==
    \A ip \in IPs, k \in RateRules,
       max_requests \in (0 - 1)..MAX_API_CALLS_PER_MINUTE,
       window_seconds \in (0 - 1)..WINDOW_60_SECONDS :
        (max_requests <= 0 \/ window_seconds <= 0) =>
            ~check_rate_limit(trackers, ip, k.endpoint, max_requests,
                              window_seconds, now).allowed

(* the half of C17 the code keeps: max_requests <= 0 rejects every call *)
C17_MaxRequestsHalf ==
    \A ip \in IPs, k \in RateRules,
       max_requests \in (0 - 1)..0,
       window_seconds \in (0 - 1)..WINDOW_60_SECONDS :
        ~check_rate_limit(trackers, ip, k.endpoint, max_requests,
                          window_seconds, now).allowed

(* C18: every block_ip call, whether update_or_create created the row or  *)
(* updated it, appends exactly one ip_blocked event of severity high for  *)
(* the client, and appends it after the row has been written: the step    *)
(* that writes the row appends nothing, the step that returns appends the *)
(* event and the row is in the store by then, and nothing else appends.   *)
C18_BlockEvent ==
    [][ /\ \A p \in Procs :
             /\ (procs[p].pc = "idle" /\ procs'[p].pc # "idle") =>
                    /\ events' = events
                    /\ procs'[p].row \subseteq BlockRows(ipblocks', RaceIp)
                    /\ procs'[p].row # {}
             /\ procs'[p].calls # procs[p].calls =>
                    /\ procs'[p].calls = procs[p].calls + 1
                    /\ events' = Append(events,
                           SecurityEvent("ip_blocked", "high", RaceIp, << >>, now))
                    /\ BlockRows(ipblocks, RaceIp) # {}
                    /\ ipblocks' = ipblocks
        /\ events' # events =>
               \E p \in Procs : procs'[p].calls = procs[p].calls + 1
        /\ Len(events') = procs'[1].calls + procs'[2].calls ]_vars

(* a call that created the row and a call that updated it have both      *)
(* returned                                                               *)
C18_Witness ==
    /\ Len(events) >= 2
    /\ \E p \in Procs :
           /\ procs[p].pc = "idle"
           /\ procs[p].calls >= 1
           /\ ~procs[p].created
           /\ \E r \in procs[p].row : r.attempt_count >= 1
    /\ \A i \in DOMAIN events :
           events[i].event_type = "ip_blocked" /\ events[i].severity = "high"

(* C19: the event log is append-only: every step of the gate, of the      *)
(* block store and of the admin block and unblock views leaves the events *)
(* already written where and as they are, the events it adds carry the    *)
(* time of the step, and timestamps never decrease along the log.         *)
C19_AppendOnly ==
    [][ /\ Len(events') >= Len(events)
        /\ SubSeq(events', 1, Len(events)) = events
        /\ \A i \in DOMAIN NewEvents : NewEvents[i].timestamp = now
        /\ \A i \in DOMAIN events', j \in DOMAIN events' :
               i <= j => events'[i].timestamp <= events'[j].timestamp ]_vars

(* a log written over time by the gate (login_fail), the block store      *)
(* (ip_blocked) and an admin unblock (suspicious)                         *)
C19_Witness ==
    /\ Len(events) >= 4
    /\ events[1].timestamp < events[Len(events)].timestamp
    /\ \E i \in DOMAIN events : events[i].event_type = "login_fail"
    /\ \E i \in DOMAIN events : events[i].event_type = "brute_force"
    /\ \E i \in DOMAIN events :
           events[i].event_type = "ip_blocked" /\ events[i].endpoint = << >>
    /\ events[Len(events)].event_type = "suspicious"

(* C20: for every request the gate calls check_rate_limit for at most one *)
(* sensitive rule, the first rule of SENSITIVE_ENDPOINTS whose prefix the *)
(* path starts with, and it makes the general 'api_general' check only    *)
(* if no sensitive rule matched or the matching rule's check allowed the  *)
(* request.                                                               *)
C20_FirstMatchOnly ==
    \A ip \in RateIPs, q \in {Req(path, "POST", 401) : path \in Paths \cup {P_LOGOUT}} :
        LET g == gate_call(trackers, ipblocks, events, ip, q.path, q.method,
                           q.status, now)
            sens == {i \in DOMAIN g.checked : g.checked[i] # "api_general"}
            matching == {i \in DOMAIN SENSITIVE_ENDPOINTS :
                            StartsWith(q.path, SENSITIVE_ENDPOINTS[i].prefix)}
            general == \E i \in DOMAIN g.checked : g.checked[i] = "api_general"
        IN  /\ Cardinality(sens) <= 1
            /\ matching = {} => sens = {}
            /\ \A i \in sens :
                   /\ i = 1
                   /\ \E m \in matching :
                          /\ \A n \in matching : m <= n
                          /\ g.checked[i] = SENSITIVE_ENDPOINTS[m].endpoint
                          /\ general =>
                                check_rate_limit(trackers, ip,
                                    SENSITIVE_ENDPOINTS[m].endpoint,
                                    SENSITIVE_ENDPOINTS[m].max_requests,
                                    SENSITIVE_ENDPOINTS[m].window, now).allowed
            /\ general => API_PATTERN_match(q.path)

(* the login rule has just rejected a request and the general check was   *)
(* not made: the client's api_general row is older than its window and    *)
(* still there                                                            *)
C20_Witness ==
    \E i \in DOMAIN events :
        /\ events[i].event_type = "rate_limit"
        /\ events[i].severity = "medium"
        /\ events[i].endpoint = P_LOGIN
        /\ events[i].timestamp = now
        /\ KeyRows(trackers, events[i].ip_address, "api_general") # {}
        /\ \A r \in KeyRows(trackers, events[i].ip_address, "api_general") :
               r.window_start < now - WINDOW_60_SECONDS

(* C21: a request the gate rejects with 403 or 429 is not forwarded and   *)
(* no later step of the gate runs for it: a 403 comes before any tracker  *)
(* is consulted, a 429 of a sensitive rule before the general check, and  *)
(* a rejected request writes none of the events of the steps after the    *)
(* application; a request is forwarded exactly when it is not rejected.   *)
C21_ShortCircuit ==
    \A ip \in RateIPs, q \in ProbeRequests :
        LET g == gate_call(trackers, ipblocks, events, ip, q.path, q.method,
                           q.status, now)
            new == SubSeq(g.events, Len(events) + 1, Len(g.events))
        IN  /\ g.forwarded = (g.status \notin {403, 429})
            /\ g.forwarded => g.status = q.status
            /\ is_ip_blocked(ipblocks, ip, now) => g.status = 403
            /\ g.status = 403 =>
                   /\ g.checked = << >>
                   /\ g.trackers = trackers
                   /\ g.ipblocks = ipblocks
                   /\ Len(new) = 1
            /\ g.status = 429 =>
                   /\ g.checked # << >>
                   /\ g.checked[Len(g.checked)] # "api_general"
                          => Len(g.checked) = 1
                   /\ \A i \in DOMAIN new :
                          new[i].event_type \in {"rate_limit", "ip_blocked", "ddos"}

(* the client has been answered a 429 and, once blocked, a 403 *)
C21_Witness ==
    \E i, j \in DOMAIN events :
        /\ events[i].event_type = "ip_blocked" /\ events[i].endpoint # << >>
        /\ events[j].event_type = "rate_limit"

(* C22: the gate writes one login_fail event of severity medium exactly   *)
(* when the request was forwarded, its path starts with the login         *)
(* endpoint and the response is a 401, and one register_success event of  *)
(* severity low exactly when a forwarded POST to a path that starts with  *)
(* the registration endpoint is answered 201; otherwise, and for every    *)
(* request answered 403 or 429, it writes neither.                        *)
C22_ResponseEvents ==
    \A ip \in RateIPs,
       path \in {P_LOGIN, P_REGISTER, P_USERS_ME, P_GAMES},
       method \in Methods, app_status \in AppStatuses :
        LET g == gate_call(trackers, ipblocks, events, ip, path, method,
                           app_status, now)
            new == SubSeq(g.events, Len(events) + 1, Len(g.events))
            fails == {i \in DOMAIN new : new[i].event_type = "login_fail"}
            regs == {i \in DOMAIN new : new[i].event_type = "register_success"}
        IN  /\ Cardinality(fails) =
                   IF g.forwarded /\ StartsWith(path, P_LOGIN) /\ app_status = 401
                   THEN 1 ELSE 0
            /\ Cardinality(regs) =
                   IF /\ g.forwarded /\ StartsWith(path, P_REGISTER)
                      /\ method = "POST" /\ app_status = 201
                   THEN 1 ELSE 0
            /\ \A i \in fails : new[i] = SecurityEvent("login_fail", "medium",
                                                     ip, path, now)
            /\ \A i \in regs : new[i] = SecurityEvent("register_success", "low",
                                                    ip, path, now)
            /\ g.status \in {403, 429} => fails = {} /\ regs = {}

(* a failed login and a registration have been recorded, and the client   *)
(* is now one whose login and registration requests are rejected          *)
C22_Witness ==
    /\ \E i \in DOMAIN events : events[i].event_type = "login_fail"
    /\ \E i \in DOMAIN events : events[i].event_type = "register_success"
    /\ \E ip \in RateIPs :
           gate_call(trackers, ipblocks, events, ip, P_LOGIN, "POST", 401,
                     now).status \in {403, 429}

(* C23: when check_rate_limit finds several live rows of its key it keeps *)
(* the row of the lowest id and deletes the others, and the comparison    *)
(* and the increment are applied to the kept row: a call that runs alone  *)
(* on such a store leaves exactly one live row of the key, the row of the *)
(* lowest id with its count raised by one (or unchanged, if the limit was *)
(* reached), and a worker's dedup step leaves that row and holds it for   *)
(* the comparison.                                                        *)
C23_KeepEarliest ==
    [][LET live == LiveRows(trackers, now)
           first == CHOOSE r \in live : \A q \in live : r.id <= q.id
           c == check_rate_limit(trackers, RaceIp, RaceEndpoint,
                                 MAX_API_CALLS_PER_MINUTE, WINDOW_60_SECONDS, now)
       IN  /\ Cardinality(live) >= 2 =>
                  /\ c.allowed = (first.request_count < MAX_API_CALLS_PER_MINUTE)
                  /\ c.count = IF c.allowed THEN first.request_count + 1
                               ELSE first.request_count
                  /\ LiveRows(c.trackers, now) =
                         {[first EXCEPT !.request_count = c.count]}
           /\ \A p \in Procs :
                  (procs[p].pc = "dedup" /\ procs'[p].pc = "check") =>
                      LET found == LiveRows(trackers, procs[p].t)
                          kept == CHOOSE r \in found : \A q \in found : r.id <= q.id
                      IN  /\ LiveRows(trackers', procs[p].t) = {kept}
                          /\ procs'[p].row = {kept}
                          /\ trackers' = trackers \ (found \ {kept})
      ]_vars

(* a worker found several live rows, and the row another worker had       *)
(* created is gone while its window is still open: the call kept row 1    *)
C23_Witness ==
    \E p, q \in Procs :
        /\ p # q
        /\ procs[p].pc = "check" /\ ~procs[p].created
        /\ procs[q].created
        /\ \E r \in procs[q].row :
               /\ r.window_start >= now - WINDOW_60_SECONDS
               /\ \A s \in trackers : s.id # r.id
               /\ \A s \in procs[p].row : s.id < r.id
        /\ Cardinality(LiveRows(trackers, now)) = 1

(* C24: a step in which the gate turns a blocked client away (it writes   *)
(* an ip_blocked event that names the requested endpoint) leaves every    *)
(* tracker row and every IPBlock row as it was and writes that one event, *)
(* of severity high, and nothing else; and in every step the              *)
(* attempt_count of a row that stays changes only if the step contains a  *)
(* block_ip call for the row's client, which adds one.                    *)
C24_BlockedRequestFrame ==
    [][/\ (\E i \in DOMAIN NewEvents :
               /\ NewEvents[i].event_type = "ip_blocked"
               /\ NewEvents[i].endpoint # << >>)
           => /\ trackers' = trackers
              /\ ipblocks' = ipblocks
              /\ Len(NewEvents) = 1
              /\ NewEvents[1].severity = "high"
              /\ is_ip_blocked(ipblocks, NewEvents[1].ip_address, now)
       /\ \A r \in ipblocks, r2 \in ipblocks' :
              (r.id = r2.id /\ r2.attempt_count # r.attempt_count)
                  => /\ BlockCall(r.ip_address)
                     /\ r2.attempt_count = r.attempt_count + 1
      ]_vars

(* a blocked client with tracker rows has been turned away at the login   *)
(* endpoint, and its row has counted a block_ip call                      *)
C24_Witness ==
    /\ trackers # {}
    /\ \E i \in DOMAIN events :
           /\ events[i].event_type = "ip_blocked"
           /\ events[i].endpoint = P_LOGIN
           /\ \E r \in ipblocks :
                  r.ip_address = events[i].ip_address /\ r.attempt_count >= 1

(* C25: whatever the interleaving of the workers' check_rate_limit calls  *)
(* for a key, all with the same max_requests, no stored request_count     *)
(* exceeds max_requests, and the count a rejected call returns (the count *)
(* of the row as the call read it) is max_requests exactly.               *)
C25_CountBounded ==
    [][/\ \A r \in trackers' : r.request_count <= MAX_API_CALLS_PER_MINUTE
       /\ \A p \in Procs :
              (/\ procs[p].pc = "check" /\ procs'[p].pc = "idle"
               /\ procs'[p].allowed = procs[p].allowed)
                  => \A r \in procs[p].row :
                         r.request_count = MAX_API_CALLS_PER_MINUTE
      ]_vars

(* a worker's call has been rejected on a row that holds max_requests,    *)
(* after the workers' calls had raised the count                          *)
C25_Witness ==
    \E p \in Procs :
        /\ procs[p].pc = "idle" /\ procs[p].calls > procs[p].allowed
        /\ \E r \in procs[p].row :
               /\ r.request_count = MAX_API_CALLS_PER_MINUTE
               /\ r \in trackers

(* C26: a check_rate_limit call for one key leaves in place every tracker *)
(* row of the client's other keys that is still inside its own window,    *)
(* and so a client that has used up the quota of the login endpoint       *)
(* inside the login window is still rejected there after a request to the *)
(* general API.                                                           *)
C26_OwnWindow ==
    \A ip \in RateIPs :
        /\ \A k1 \in RateRules, k2 \in RateRules :
               LET c == check_rate_limit(trackers, ip, k1.endpoint,
                                         k1.max_requests, k1.window, now)
               IN  \A r \in KeyRows(trackers, ip, k2.endpoint) :
                       (k1 # k2 /\ r.window_start >= now - k2.window)
                           => \E r2 \in c.trackers : r2.id = r.id
        /\ (\E r \in KeyRows(trackers, ip, "/api/auth/token/login/") :
                /\ r.window_start >= now - RATE_LIMIT_WINDOW
                /\ r.request_count >= MAX_LOGIN_ATTEMPTS)
               => LET g1 == gate_call(trackers, ipblocks, events, ip, P_GAMES,
                                      "GET", 200, now)
                      g2 == gate_call(g1.trackers, g1.ipblocks, g1.events, ip,
                                      P_LOGIN, "POST", 200, now)
                  IN  g2.status = 429

(* C27: whatever the interleaving of the workers' check_rate_limit calls  *)
(* for one key, the number of calls that have returned allowed inside one *)
(* window (here: the window that starts with the first call, at time 0)   *)
(* is at most max_requests.                                               *)
C27_AllowedBounded ==
    now <= WINDOW_60_SECONDS
        => procs[1].allowed + procs[2].allowed <= MAX_API_CALLS_PER_MINUTE

(* C28, as claimed: a row is removed only in a step that unblocks its     *)
(* client (the unblock action or bulk_unblock, the callers of             *)
(* unblock_ip); time and gate requests remove nothing and block_ip on an  *)
(* expired row keeps blocked_at and adds one to attempt_count.            *)
C28_RemovedOnlyByUnblock ==
    [][/\ \A r \in RemovedRows : UnblockOf(r)
       /\ RowOutlivesExpiry
      ]_vars

(* C28, amended: a row is removed only by an administrator's explicit     *)
(* operation, which is the unblock action, bulk_unblock, or the DELETE of *)
(* the row through the viewset (a step that removes rows and changes      *)
(* nothing else and writes no event); time and gate requests remove       *)
(* nothing and block_ip on an expired row keeps blocked_at and adds one   *)
(* to attempt_count.                                                      *)
C28_RemovedOnlyByAdmin ==
    [][/\ RemovedRows # {} =>
              /\ ipblocks' = ipblocks \ RemovedRows
              /\ now' = now /\ trackers' = trackers
              /\ \/ \A r \in RemovedRows : UnblockOf(r)
                 \/ events' = events
       /\ RowOutlivesExpiry
      ]_vars

(* a timed block that had expired was followed by another block_ip: the   *)
(* row still carries the time of the first block, its expiry lies a whole *)
(* block period after the first one, and the attempt was counted          *)
C28_Witness ==
    \E r \in ipblocks :
        /\ ~r.is_permanent
        /\ r.attempt_count >= 1
        /\ r.blocked_until >= r.blocked_at + 2 * BLOCK_DURATION_HOURS * TICKS_PER_HOUR

(* C29: an unblock leaves the client's login_fail events in the log, and  *)
(* a forwarded login answered 401 counts all of the client's login_fail   *)
(* events of the last 15 minutes, those written before an unblock and     *)
(* those written by mfa_verify included: when they are                    *)
(* AUTO_BLOCK_THRESHOLD or more, itself counted, the request blocks the   *)
(* client again (a new auto row if the client has none) and appends       *)
(* ip_blocked and brute_force.                                            *)
C29_HistorySurvivesUnblock ==
    [][/\ Len(events') >= Len(events)
       /\ SubSeq(events', 1, Len(events)) = events
       /\ \A ip \in RateIPs :
              (NewEvents # << >> /\
               NewEvents[1] = SecurityEvent("login_fail", "medium", ip, P_LOGIN, now))
              =>
              LET prior == Cardinality({i \in DOMAIN events :
                              /\ events[i].event_type = "login_fail"
                              /\ events[i].ip_address = ip
                              /\ events[i].timestamp >= now - MINUTES_15})
              IN  prior + 1 >= AUTO_BLOCK_THRESHOLD =>
                      /\ NewEvents =
                            << SecurityEvent("login_fail", "medium", ip, P_LOGIN, now),
                               SecurityEvent("ip_blocked", "high", ip, << >>, now),
                               SecurityEvent("brute_force", "critical", ip, << >>, now) >>
                      /\ \E r \in ipblocks' :
                             /\ r.ip_address = ip /\ r.reason = "auto"
                             /\ is_blocked(r, now)
                             /\ BlockRows(ipblocks, ip) = {} =>
                                    r.blocked_at = now /\ r.attempt_count = 0
      ]_vars

(* the client was blocked for brute force with a failed MFA verification  *)
(* among its failures, was unblocked, and its next failed login, the only *)
(* login_fail since the unblock, blocked it again                         *)
C29_Witness ==
    \E u \in DOMAIN events :
        /\ events[u].event_type = "suspicious"
        /\ \E i, j \in 1..(u - 1) :
               /\ events[i].event_type = "login_fail"
               /\ events[i].endpoint = P_MFA_VERIFY
               /\ events[j].event_type = "brute_force"
        /\ Len(events) = u + 3
        /\ events[u + 1].event_type = "login_fail"
        /\ events[u + 3].event_type = "brute_force"
        /\ \E r \in ipblocks : r.reason = "auto" /\ r.attempt_count = 0

====
